---- MODULE Spec2Model ----
(***************************************************************************)
(* A model of the SharePoint agent wrapper (sharepoint_agent.py): the      *)
(* SharePointAgent object, the remote agent service it talks to, and the   *)
(* callers that invoke query() and _execute_run_with_retry() on it.        *)
(*                                                                         *)
(* Python strings that the code builds with f-strings are modelled as      *)
(* sequences of pieces: "" is << >>, and f"prefix: {e}" is                 *)
(* <<"prefix: ">> \o (the pieces of e).  Optional values are sequences of  *)
(* length at most one: None is << >>, a present value v is << v >>.        *)
(* Identifiers (agent, thread, run) are positive numbers; 0 is None.       *)
(***************************************************************************)
EXTENDS Integers, Sequences, FiniteSets, TLC

\* ------------------------------------------------------------------ bounds
\* Operations (query / direct executor calls) started in one behaviour.
MaxOps == 2
\* Text segments in one assistant message.
MaxTexts == 2
\* Largest max_retries a caller passes to the executor directly.
MaxRetriesArg == 4

\* What the clock reads when no call is in progress.
Epoch == 1

\* _execute_run_with_retry(self, thread_id, max_retries: int = 3)
DefaultMaxRetries == 3

\* Callers of the one SharePointAgent object.  The sequential specification
\* runs MainCallers only.
Callers == {1, 2}
MainCallers == {1}

Questions == {"q"}
Texts == {"t1", "t2"}
Statuses == {"completed", "failed", "cancelled", "weird_status"}

\* ---------------------------------------------------------------- optionals
None == << >>
Some(v) == << v >>

\* ---------------------------------------------------------------- exceptions
\* The classes the code names, with their base classes (azure.core.exceptions
\* and the Python built-ins).
Parent(cls) ==
    CASE cls = "ServiceRequestError"   -> "AzureError"
      [] cls = "HttpResponseError"     -> "AzureError"
      [] cls = "ResourceNotFoundError" -> "HttpResponseError"
      [] cls = "AzureError"            -> "Exception"
      [] cls = "RuntimeError"          -> "Exception"
      [] cls = "AttributeError"        -> "Exception"
      [] cls = "ClientAuthenticationError" -> "HttpResponseError"
      [] cls = "ValueError"            -> "Exception"
      [] cls = "KeyError"              -> "Exception"
      [] cls = "Exception"             -> "BaseException"
      [] OTHER                         -> "BaseException"

RECURSIVE IsInstance(_, _)
IsInstance(kind, cls) ==
    IF kind = cls THEN TRUE
    ELSE IF kind = "BaseException" THEN FALSE
    ELSE IsInstance(Parent(kind), cls)

Exc(kind, msg) == [kind |-> kind, msg |-> msg]
NoExc == Exc("none", << >>)

\* What a remote call can raise: a transient service-request error, or
\* another service error.
RemoteErrors ==
    { Exc("ServiceRequestError", <<"connection reset">>),
      Exc("HttpResponseError", <<"bad request">>) }

\* raise RuntimeError(f"<prefix>{e}") from e
Wrap(prefix, e) == Exc("RuntimeError", <<prefix>> \o e.msg)

\* ------------------------------------------------------------------ messages
Message(role, text) == [role |-> role, text |-> text]

TextSeqs == UNION { [1..n -> Texts] : n \in 0..MaxTexts }

\* What a completed run leaves in the thread: nothing, or one assistant
\* message with zero or more text segments.  (A run that ends otherwise
\* adds nothing: query does not read the thread after such a run, and the
\* threads reachable are the same.)
Replies == { << >> } \cup { << Message("assistant", ts) >> : ts \in TextSeqs }

Reverse(s) == [i \in 1..Len(s) |-> s[Len(s) + 1 - i]]

\* agents_client.messages.list(thread_id=...): the service lists a thread's
\* messages newest first (its default order); a thread is kept here in
\* the order the messages were added.
ListMessages(thread) == Reverse(thread)

Last(s) == s[Len(s)]

SENTINEL == <<"No response received from agent">>

\* A faulty variant of ExtractContent: the first text segment is taken.
ExtractContentFirstSegment(messages) ==
    LET hits == { i \in 1..Len(messages) :
                    /\ messages[i].role = "assistant"
                    /\ messages[i].text # << >> }
    IN  IF hits = {} THEN SENTINEL
        ELSE LET first == CHOOSE i \in hits : \A j \in hits : i <= j
             IN  << Head(messages[first].text) >>

\* A faulty variant of ExtractContent: without a message, the empty string.
ExtractContentNoSentinel(messages) ==
    LET hits == { i \in 1..Len(messages) :
                    /\ messages[i].role = "assistant"
                    /\ messages[i].text # << >> }
    IN  IF hits = {} THEN << >>
        ELSE LET first == CHOOSE i \in hits : \A j \in hits : i <= j
             IN  << Last(messages[first].text) >>

\* The loop of _get_response_content over the listed messages.
ExtractContent(messages) ==
    LET hits == { i \in 1..Len(messages) :
                    /\ messages[i].role = "assistant"
                    /\ messages[i].text # << >> }
    IN  IF hits = {} THEN SENTINEL
        ELSE LET first == CHOOSE i \in hits : \A j \in hits : i <= j
             IN  << Last(messages[first].text) >>

\* ------------------------------------------------------------ environment
\* _validate_required_vars: required_vars, in the order of the list.
RequiredVars == <<"PROJECT_ENDPOINT", "SHAREPOINT_RESOURCE_NAME", "MODEL_DEPLOYMENT_NAME">>
RequiredSet == { RequiredVars[i] : i \in 1..Len(RequiredVars) }

\* A variable's value in os.environ: not set, the empty string, or a text.
Unset == "<unset>"
EnvValues == { Unset, "", "a", "b" }

\* An environment with every required variable set.
ValidEnv == [v \in RequiredSet |-> "a"]

\* --------------------------------------------------------------- the state
VARIABLES
    agent,            \* self.agent: 0 (None) or the agent's id
    sharepoint_tool,  \* self.sharepoint_tool is set
    remoteAgents,     \* ids of the agents that exist in the remote service
    agentsCreated,    \* number of agents the remote service has created
    threads,          \* remote threads: threads[t] is thread t's messages, oldest first
    runs,             \* number of runs the remote service has created
    ops,              \* operations started so far
    pc,               \* pc[c]: where caller c is
    frame,            \* frame[c]: the locals of caller c's call (given is the
                      \* thread_id argument), with the log of the remote calls
                      \* it issued (calls) and the thread or agent id each was
                      \* given (targets, 0 for none), of how each
                      \* create_and_process attempt ended (outcomes), and of
                      \* the warnings it logged (logged)
    response,         \* response[c]: the AgentResponse returned to c, if any
    clock,            \* what time.time() returns
    scope,            \* the with-block around the agent, if any
    env,              \* os.environ: env[v] is the value of variable v, or Unset
    boot,             \* start-up: Config() and SharePointAgent(config)
    sinceCleanup,     \* number of remote agents created since cleanup was last called
    cli               \* the InteractiveCLI object and where its run() is

vars == << agent, sharepoint_tool, remoteAgents, agentsCreated, threads, runs,
           ops, pc, frame, response, clock, scope, env, boot, sinceCleanup, cli >>

\* The state outside the agent object and its callers.
outerVars == << scope, env, boot, sinceCleanup, cli >>

NoRun == None
Run(id, status, last_error) == [id |-> id, status |-> status, last_error |-> last_error]

IdleFrame ==
    [ op          |-> "none",
      question    |-> "",
      given       |-> 0,
      lookup      |-> "none",
      created     |-> 0,
      thread_id   |-> 0,
      start_time  |-> 0,
      max_retries |-> 0,
      attempt     |-> 0,
      sleeps      |-> << >>,
      calls       |-> << >>,
      targets     |-> << >>,
      outcomes    |-> << >>,
      logged      |-> << >>,
      run         |-> NoRun,
      exc         |-> NoExc,
      list_exc    |-> NoExc ]

\* @dataclass AgentResponse
AgentResponse(success, content, run_id, thread_id, error_message, execution_time) ==
    [ success        |-> success,
      content        |-> content,
      run_id         |-> run_id,
      thread_id      |-> thread_id,
      error_message  |-> error_message,
      execution_time |-> execution_time ]

NoResponse == None

\* No with-block is used.
NoScope == [state |-> "none", how |-> "none", held |-> 0, deleted |-> "none"]

\* No property of the Config has been read.
NoRead == [var |-> "none", value |-> Unset, exc |-> NoExc]

\* No InteractiveCLI is running: thread_id and history are
\* self.thread_id and self.conversation_history; asked is the questions
\* processed since the history was last cleared and whether each succeeded,
\* how the way run() ended, cleanups and queries the number of cleanup and
\* query calls run() has made.
NoCli ==
    [ pc        |-> "none",
      thread_id |-> 0,
      history   |-> << >>,
      asked     |-> << >>,
      how       |-> "none",
      cleanups  |-> 0,
      queries   |-> 0 ]

\* Config() and SharePointAgent(config) have returned: validated is
\* os.environ as _validate_required_vars saw it, dotenv the .env file, cause
\* the exception the client construction raised, object whether
\* SharePointAgent(config) gave an object, read the last property read.
BootReady ==
    [ pc        |-> "agent_ready",
      error     |-> NoExc,
      validated |-> ValidEnv,
      dotenv    |-> [v \in RequiredSet |-> Unset],
      cause     |-> NoExc,
      object    |-> TRUE,
      read      |-> NoRead ]

\* The state once Config() and SharePointAgent(config) have returned
\* (__init__, lines 58-65): no agent and no tool yet.
Init ==
    /\ agent = 0
    /\ sharepoint_tool = FALSE
    /\ remoteAgents = {}
    /\ agentsCreated = 0
    /\ threads = << >>
    /\ runs = 0
    /\ ops = 0
    /\ pc = [c \in Callers |-> "idle"]
    /\ frame = [c \in Callers |-> IdleFrame]
    /\ response = [c \in Callers |-> NoResponse]
    /\ clock = Epoch
    /\ scope = NoScope
    /\ env = ValidEnv
    /\ boot = BootReady
    /\ sinceCleanup = 0
    /\ cli = NoCli

\* An exception e leaves the current function of caller c: inside query it
\* reaches query's except clause, otherwise it reaches the caller.
Raise(c, f, e) ==
    /\ frame' = [frame EXCEPT ![c] = [f EXCEPT !.exc = e]]
    /\ pc' = [pc EXCEPT ![c] = IF f.op = "query" THEN "q_except" ELSE "raised"]

\* The remote call name was issued for thread or agent t (0: for neither).
CalledOn(f, name, t) ==
    [f EXCEPT !.calls = Append(@, name), !.targets = Append(@, t)]

Called(f, name) == CalledOn(f, name, 0)

\* A create_and_process call was issued and ended with outcome: "ok", or the
\* class of the exception it raised.
Attempted(f, outcome) ==
    [CalledOn(f, "runs.create_and_process", f.thread_id) EXCEPT !.outcomes = Append(@, outcome)]

\* ------------------------------------------------------------ create_agent
\* What project_client.connections.get(name=...) can do: return the
\* connection, return nothing, or raise.
ConnectionResults ==
    { [kind |-> "found", exc |-> NoExc], [kind |-> "nothing", exc |-> NoExc] }
    \cup { [kind |-> "raises", exc |-> e] :
             e \in RemoteErrors \cup { Exc("ResourceNotFoundError", <<"no such connection">>) } }

\* A faulty variant of SetupToolError: a lookup that returns nothing is
\* taken for a connection.
SetupToolErrorNothingAccepted(r) ==
    IF r.kind \in { "found", "nothing" } THEN NoExc
    ELSE IF IsInstance(r.exc.kind, "ResourceNotFoundError")
    THEN Exc("RuntimeError", <<"SharePoint connection '", "name", "' not found. ",
                               "Please verify the connection name in your Azure AI Foundry project.">>)
    ELSE Wrap("SharePoint tool setup failed: ", r.exc)

\* The exception _setup_sharepoint_tool raises for the lookup's result r
\* (NoExc when it returns normally).
SetupToolError(r) ==
    IF r.kind = "found" THEN NoExc
    ELSE IF r.kind = "nothing" \/ IsInstance(r.exc.kind, "ResourceNotFoundError")
    THEN Exc("RuntimeError", <<"SharePoint connection '", "name", "' not found. ",
                               "Please verify the connection name in your Azure AI Foundry project.">>)
    ELSE Wrap("SharePoint tool setup failed: ", r.exc)

\* query, line 243: if not self.agent: self.create_agent()
QueryEnsureAgent(c) ==
    /\ pc[c] = "q_agent"
    /\ pc' = [pc EXCEPT ![c] = IF agent = 0 THEN "ca_tool" ELSE "q_thread"]
    /\ UNCHANGED << agent, sharepoint_tool, remoteAgents, agentsCreated, threads,
                    runs, ops, frame, response >>
    /\ UNCHANGED << clock, outerVars >>

\* create_agent, lines 133-134: set up the SharePoint tool if it is not set.
CreateAgentSetupTool(c) ==
    /\ pc[c] = "ca_tool"
    /\ IF sharepoint_tool
       THEN /\ pc' = [pc EXCEPT ![c] = "ca_create"]
            /\ UNCHANGED << sharepoint_tool, frame >>
       ELSE \E r \in ConnectionResults :
              LET f == [Called(frame[c], "connections.get") EXCEPT
                            !.lookup = IF r.kind = "raises" THEN r.exc.kind ELSE r.kind]
              IN  IF SetupToolError(r) = NoExc
                  THEN /\ sharepoint_tool' = TRUE
                       /\ frame' = [frame EXCEPT ![c] = f]
                       /\ pc' = [pc EXCEPT ![c] = "ca_create"]
                  ELSE /\ Raise(c, f, Wrap("Agent creation failed: ", SetupToolError(r)))
                       /\ UNCHANGED sharepoint_tool
    /\ UNCHANGED << agent, remoteAgents, agentsCreated, threads, runs, ops, response >>
    /\ UNCHANGED << clock, outerVars >>

\* create_agent, lines 146-157: the remote create_agent call; what it
\* returns is not stored in self.agent yet.
CreateAgentRemote(c) ==
    /\ pc[c] = "ca_create"
    /\ LET f == Called(frame[c], "create_agent")
       IN  \/ /\ agentsCreated' = agentsCreated + 1
              /\ remoteAgents' = remoteAgents \cup { agentsCreated + 1 }
              /\ sinceCleanup' = sinceCleanup + 1
              /\ frame' = [frame EXCEPT ![c] = [f EXCEPT !.created = agentsCreated + 1]]
              /\ pc' = [pc EXCEPT ![c] = "ca_store"]
           \/ /\ \E e \in RemoteErrors : Raise(c, f, Wrap("Agent creation failed: ", e))
              /\ UNCHANGED << remoteAgents, agentsCreated, sinceCleanup >>
    /\ UNCHANGED << agent, sharepoint_tool, threads, runs, ops, response >>
    /\ UNCHANGED << clock, scope, env, boot, cli >>

\* create_agent, line 146: self.agent = <the agent the call returned>,
\* whatever self.agent was.
CreateAgentStore(c) ==
    /\ pc[c] = "ca_store"
    /\ agent' = frame[c].created
    /\ pc' = [pc EXCEPT ![c] = IF frame[c].op = "query" THEN "q_thread" ELSE "returned"]
    /\ UNCHANGED << sharepoint_tool, remoteAgents, agentsCreated, threads, runs, ops,
                    frame, response >>
    /\ UNCHANGED << clock, outerVars >>

\* ------------------------------------------------------------------- query
\* A caller calls query(question, thread_id): thread_id is None (0) or the
\* id of a thread an earlier query returned.
QueryBegin(c) ==
    /\ pc[c] = "idle"
    /\ boot.pc = "agent_ready"
    /\ scope.state # "released"
    /\ ops < MaxOps
    /\ \E q \in Questions, t \in 0..Len(threads) :
         frame' = [frame EXCEPT ![c] =
                     [IdleFrame EXCEPT !.op = "query", !.question = q,
                                       !.given = t, !.thread_id = t,
                                       !.start_time = clock,
                                       !.max_retries = DefaultMaxRetries]]
    /\ pc' = [pc EXCEPT ![c] = "q_agent"]
    /\ response' = [response EXCEPT ![c] = NoResponse]
    /\ ops' = ops + 1
    /\ UNCHANGED << agent, sharepoint_tool, remoteAgents, agentsCreated, threads, runs >>
    /\ UNCHANGED << clock, outerVars >>

\* A faulty variant of QueryThread: a thread is created whether or not one
\* is given.
QueryThreadAlwaysCreates(c) ==
    /\ pc[c] = "q_thread"
    /\ LET f == Called(frame[c], "threads.create")
       IN  \/ /\ threads' = Append(threads, << >>)
              /\ frame' = [frame EXCEPT ![c] = [f EXCEPT !.thread_id = Len(threads) + 1]]
              /\ pc' = [pc EXCEPT ![c] = "q_send"]
           \/ /\ \E e \in RemoteErrors : Raise(c, f, Wrap("Thread creation failed: ", e))
              /\ UNCHANGED threads
    /\ UNCHANGED << agent, sharepoint_tool, remoteAgents, agentsCreated, runs, ops, response >>
    /\ UNCHANGED << clock, outerVars >>

\* query, lines 247-248 with _create_thread: create a thread if none is given.
QueryThread(c) ==
    /\ pc[c] = "q_thread"
    /\ IF frame[c].thread_id = 0
       THEN LET f == Called(frame[c], "threads.create")
            IN  \/ /\ threads' = Append(threads, << >>)
                   /\ frame' = [frame EXCEPT ![c] = [f EXCEPT !.thread_id = Len(threads) + 1]]
                   /\ pc' = [pc EXCEPT ![c] = "q_send"]
                \/ /\ \E e \in RemoteErrors : Raise(c, f, Wrap("Thread creation failed: ", e))
                   /\ UNCHANGED threads
       ELSE /\ pc' = [pc EXCEPT ![c] = "q_send"]
            /\ UNCHANGED << threads, frame >>
    /\ UNCHANGED << agent, sharepoint_tool, remoteAgents, agentsCreated, runs, ops, response >>
    /\ UNCHANGED << clock, outerVars >>

\* A faulty variant of QuerySend: a failed send is ignored and the run is
\* executed all the same.
QuerySendIgnoresFailure(c) ==
    /\ pc[c] = "q_send"
    /\ LET f == CalledOn(frame[c], "messages.create", frame[c].thread_id)
           t == frame[c].thread_id
       IN  /\ \/ threads' = [threads EXCEPT ![t] = Append(@, Message("user", << f.question >>))]
              \/ UNCHANGED threads
           /\ frame' = [frame EXCEPT ![c] = f]
           /\ pc' = [pc EXCEPT ![c] = "q_run"]
    /\ UNCHANGED << agent, sharepoint_tool, remoteAgents, agentsCreated, runs, ops, response >>
    /\ UNCHANGED << clock, outerVars >>

\* query, line 251 with _send_message: add the user's message to the thread.
QuerySend(c) ==
    /\ pc[c] = "q_send"
    /\ LET f == CalledOn(frame[c], "messages.create", frame[c].thread_id)
           t == frame[c].thread_id
       IN  \/ /\ threads' = [threads EXCEPT ![t] = Append(@, Message("user", << f.question >>))]
              /\ frame' = [frame EXCEPT ![c] = f]
              /\ pc' = [pc EXCEPT ![c] = "q_run"]
           \/ /\ \E e \in RemoteErrors : Raise(c, f, Wrap("Message sending failed: ", e))
              /\ UNCHANGED threads
    /\ UNCHANGED << agent, sharepoint_tool, remoteAgents, agentsCreated, runs, ops, response >>
    /\ UNCHANGED << clock, outerVars >>

\* -------------------------------------------------- _execute_run_with_retry
\* What the remote run can report as its last error (only a failed run has one).
LastErrors == { None, Some("rate_limit_exceeded") }

\* A faulty variant of IsTransient: every service error is retried.
IsTransientAnyAzureError(e) == IsInstance(e.kind, "AzureError")

\* except ServiceRequestError as e
IsTransient(e) == IsInstance(e.kind, "ServiceRequestError")

\* A faulty variant of RetryAllowed: the last attempt is followed by a sleep too.
RetryAllowedOnLast(attempt, max_retries) == attempt < max_retries

\* if attempt < max_retries - 1
RetryAllowed(attempt, max_retries) == attempt < max_retries - 1

\* A faulty variant of BackoffWait: the exponent is one too large.
BackoffWaitOffByOne(attempt) == 2 ^ (attempt + 1)

\* wait_time = 2 ** attempt
BackoffWait(attempt) == 2 ^ attempt

\* time.sleep(wait_time): the clock has advanced by the time slept.
Slept(now, wait_time) == now + wait_time

\* A faulty variant of RetryFrom: a retry of query starts over at the send.
RetryFromSend(f) == IF f.op = "query" THEN "q_send" ELSE "q_run"

\* Where a retry continues: the loop of _execute_run_with_retry, lines
\* 187-205, holds the create_and_process call only.
RetryFrom(f) == "q_run"

\* Where the executor's caller continues once the executor has returned.
AfterRun(f) == IF f.op = "query" THEN "q_status" ELSE "returned"

\* A caller calls _execute_run_with_retry(thread_id, max_retries) itself, on
\* an existing thread.
ExecBegin(c) ==
    /\ pc[c] = "idle"
    /\ boot.pc = "agent_ready"
    /\ ops < MaxOps
    /\ \E t \in 1..Len(threads), n \in 0..MaxRetriesArg :
         frame' = [frame EXCEPT ![c] =
                     [IdleFrame EXCEPT !.op = "exec", !.thread_id = t, !.max_retries = n]]
    /\ pc' = [pc EXCEPT ![c] = "q_run"]
    /\ response' = [response EXCEPT ![c] = NoResponse]
    /\ ops' = ops + 1
    /\ UNCHANGED << agent, sharepoint_tool, remoteAgents, agentsCreated, threads, runs >>
    /\ UNCHANGED << clock, outerVars >>

\* One pass of the loop "for attempt in range(max_retries)": the remote
\* create_and_process call and what follows it (return, sleep and go on, or
\* raise).  With the range exhausted the function falls off its end and
\* returns None.
ExecuteRunAttempt(c) ==
    /\ pc[c] = "q_run"
    /\ LET f0 == frame[c]
       IN  IF f0.attempt >= f0.max_retries
           THEN /\ frame' = [frame EXCEPT ![c] = [f0 EXCEPT !.run = NoRun]]
                /\ pc' = [pc EXCEPT ![c] = AfterRun(f0)]
                /\ UNCHANGED << threads, runs, clock >>
           ELSE IF agent = 0
           THEN /\ Raise(c, f0, Exc("AttributeError", <<"'NoneType' object has no attribute 'id'">>))
                /\ UNCHANGED << threads, runs, clock >>
           ELSE \/ \E st \in Statuses, le \in LastErrors, reply \in Replies :
                     /\ st # "failed" => le = None
                     /\ st # "completed" => reply = << >>
                     /\ runs' = runs + 1
                     /\ threads' = [threads EXCEPT ![f0.thread_id] = @ \o reply]
                     /\ frame' = [frame EXCEPT ![c] =
                                    [Attempted(f0, "ok") EXCEPT !.run = Some(Run(runs + 1, st, le))]]
                     /\ pc' = [pc EXCEPT ![c] = AfterRun(f0)]
                     /\ UNCHANGED clock
                \/ \E e \in RemoteErrors :
                     LET f == Attempted(f0, e.kind)
                     IN  /\ IF IsTransient(e)
                            THEN IF RetryAllowed(f.attempt, f.max_retries)
                                 THEN /\ frame' = [frame EXCEPT ![c] =
                                                     [f EXCEPT !.sleeps = Append(@, BackoffWait(f.attempt)),
                                                               !.attempt = @ + 1]]
                                      /\ clock' = Slept(clock, BackoffWait(f.attempt))
                                      /\ pc' = [pc EXCEPT ![c] = RetryFrom(f)]
                                 ELSE Raise(c, f, e) /\ UNCHANGED clock
                            ELSE Raise(c, f, e) /\ UNCHANGED clock
                         /\ UNCHANGED << threads, runs >>
    /\ UNCHANGED << agent, sharepoint_tool, remoteAgents, agentsCreated, ops, response >>
    /\ UNCHANGED << outerVars >>

\* ---------------------------------------------- query: the run's outcome
\* _get_response_content: listed is NoExc when messages.list returned, else
\* the exception it raised.
GetResponseContent(thread, listed) ==
    IF listed = NoExc
    THEN ExtractContent(ListMessages(thread))
    ELSE <<"Error retrieving response: ">> \o listed.msg

\* A faulty variant of RunFailedMessage: f"Agent run failed: {run.last_error}"
RunFailedMessageNoFallback(run) ==
    <<"Agent run failed: ", IF run.last_error # None THEN run.last_error[1] ELSE "None">>

\* f"Agent run failed: {run.last_error if run.last_error else 'Unknown error'}"
RunFailedMessage(run) ==
    <<"Agent run failed: ", IF run.last_error # None THEN run.last_error[1] ELSE "Unknown error">>

\* A faulty variant of UnexpectedStatusMessage: the status is left out.
UnexpectedStatusMessageNoStatus(run) == <<"Unexpected run status">>

\* f"Unexpected run status: {run.status}"
UnexpectedStatusMessage(run) == <<"Unexpected run status: ", run.status>>

\* A faulty variant of Elapsed: the operands are exchanged.
ElapsedReversed(now, start_time) == start_time - now

\* execution_time = time.time() - start_time
Elapsed(now, start_time) == now - start_time

\* The AgentResponse of query's three branches on run.status.
\* A faulty variant of StatusResponse: the result does not carry the thread.
StatusResponseNoThread(thread_id, run, content, execution_time) ==
    AgentResponse(run.status = "completed", content, run.id, 0, None, Some(execution_time))

\* query, lines 258-298: the AgentResponse for a run that was returned.
StatusResponse(thread_id, run, content, execution_time) ==
    IF run.status = "completed"
    THEN AgentResponse(TRUE, content, run.id, thread_id, None, Some(execution_time))
    ELSE IF run.status = "failed"
    THEN AgentResponse(FALSE, << >>, run.id, thread_id, Some(RunFailedMessage(run)),
                       Some(execution_time))
    ELSE AgentResponse(FALSE, << >>, run.id, thread_id, Some(UnexpectedStatusMessage(run)),
                       Some(execution_time))

\* The AgentResponse of query's except clause.
ExceptResponse(thread_id, e, execution_time) ==
    AgentResponse(FALSE, << >>, 0, thread_id, Some(<<"Query execution failed: ">> \o e.msg),
                  Some(execution_time))

\* A faulty variant of QueryCatches: only the wrapped errors are caught.
QueryCatchesRuntimeErrorOnly(e) == IsInstance(e.kind, "RuntimeError")

\* except Exception as e
QueryCatches(e) == IsInstance(e.kind, "Exception")

\* query, lines 256-298: branch on the run's status; a completed run's
\* content comes from listing the thread's messages.
QueryNormalize(c) ==
    /\ pc[c] = "q_status"
    /\ LET f == frame[c]
       IN  IF f.run = NoRun
           THEN /\ Raise(c, f, Exc("AttributeError", <<"'NoneType' object has no attribute 'status'">>))
                /\ UNCHANGED response
           ELSE LET run == f.run[1]
                IN  /\ IF run.status = "completed"
                       THEN \E listed \in { NoExc } \cup RemoteErrors :
                              /\ frame' = [frame EXCEPT ![c] =
                                             [CalledOn(f, "messages.list", f.thread_id) EXCEPT !.list_exc = listed]]
                              /\ response' = [response EXCEPT ![c] =
                                    Some(StatusResponse(f.thread_id, run,
                                           GetResponseContent(threads[f.thread_id], listed),
                                           Elapsed(clock, f.start_time)))]
                       ELSE /\ response' = [response EXCEPT ![c] =
                                    Some(StatusResponse(f.thread_id, run, << >>,
                                                        Elapsed(clock, f.start_time)))]
                            /\ UNCHANGED frame
                    /\ pc' = [pc EXCEPT ![c] = "returned"]
    /\ UNCHANGED << agent, sharepoint_tool, remoteAgents, agentsCreated, threads, runs, ops >>
    /\ UNCHANGED << clock, outerVars >>

\* query, lines 300-311: the except clause.
QueryExcept(c) ==
    /\ pc[c] = "q_except"
    /\ IF QueryCatches(frame[c].exc)
       THEN /\ response' = [response EXCEPT ![c] =
                              Some(ExceptResponse(frame[c].thread_id, frame[c].exc,
                                                  Elapsed(clock, frame[c].start_time)))]
            /\ pc' = [pc EXCEPT ![c] = "returned"]
       ELSE /\ pc' = [pc EXCEPT ![c] = "raised"]
            /\ UNCHANGED response
    /\ UNCHANGED << agent, sharepoint_tool, remoteAgents, agentsCreated, threads, runs,
                    ops, frame >>
    /\ UNCHANGED << clock, outerVars >>

\* The caller has the call's result (or its exception) and goes on.  Only
\* the difference of two clock readings of one call is ever used, so with no
\* call in progress the reading is taken back to Epoch.
Finish(c) ==
    /\ pc[c] \in { "returned", "raised" }
    /\ pc' = [pc EXCEPT ![c] = "idle"]
    /\ frame' = [frame EXCEPT ![c] = IdleFrame]
    /\ response' = [response EXCEPT ![c] = NoResponse]
    /\ clock' = IF \A d \in Callers \ {c} : pc[d] = "idle" THEN Epoch ELSE clock
    /\ UNCHANGED << agent, sharepoint_tool, remoteAgents, agentsCreated, threads, runs, ops >>
    /\ UNCHANGED outerVars

\* ----------------------------------------------- create_agent, cleanup, with
\* A caller calls create_agent() itself.
CreateAgentBegin(c) ==
    /\ pc[c] = "idle"
    /\ boot.pc = "agent_ready"
    /\ scope.state # "released"
    /\ ops < MaxOps
    /\ frame' = [frame EXCEPT ![c] = [IdleFrame EXCEPT !.op = "create"]]
    /\ pc' = [pc EXCEPT ![c] = "ca_tool"]
    /\ response' = [response EXCEPT ![c] = NoResponse]
    /\ ops' = ops + 1
    /\ UNCHANGED << agent, sharepoint_tool, remoteAgents, agentsCreated, threads, runs >>
    /\ UNCHANGED << clock, outerVars >>

\* A caller calls cleanup() itself.
CleanupBegin(c) ==
    /\ pc[c] = "idle"
    /\ boot.pc = "agent_ready"
    /\ scope.state # "released"
    /\ ops < MaxOps
    /\ frame' = [frame EXCEPT ![c] = [IdleFrame EXCEPT !.op = "cleanup"]]
    /\ pc' = [pc EXCEPT ![c] = "cl_delete"]
    /\ response' = [response EXCEPT ![c] = NoResponse]
    /\ sinceCleanup' = 0
    /\ ops' = ops + 1
    /\ UNCHANGED << agent, sharepoint_tool, remoteAgents, agentsCreated, threads, runs >>
    /\ UNCHANGED << clock, scope, env, boot, cli >>

\* A faulty variant of HasAgent: cleanup does not look at the handle.
HasAgentAlways(handle) == TRUE

\* cleanup, line 316: if self.agent and self.agents_client (the client is
\* set in every constructed object).
HasAgent(handle) == handle # 0

\* A faulty variant of RemoteAfterDelete: every agent is deleted.
RemoteAfterDeleteAll(remote, handle, result) == IF result = NoExc THEN {} ELSE remote

\* delete_agent(self.agent.id), line 317: the one agent named is deleted,
\* unless the call raises.
RemoteAfterDelete(remote, handle, result) ==
    IF result = NoExc THEN remote \ { handle } ELSE remote

\* What delete_agent can do: delete the agent, or raise.
DeleteResults == { NoExc } \cup RemoteErrors

\* A faulty variant of HandleAfterDelete: the handle is cleared in any case.
HandleAfterDeleteAlwaysCleared(handle, result) == 0

\* cleanup, lines 317-321: self.agent = None is reached only when
\* delete_agent has returned.
HandleAfterDelete(handle, result) == IF result = NoExc THEN 0 ELSE handle

\* cleanup, lines 315-321: delete the agent if there is one; an exception is
\* logged as a warning and goes no further.
CleanupDelete(c) ==
    /\ pc[c] = "cl_delete"
    /\ IF ~ HasAgent(agent)
       THEN /\ UNCHANGED << agent, remoteAgents, frame >>
            /\ scope' = IF scope.state = "exiting"
                        THEN [scope EXCEPT !.state = "released"] ELSE scope
       ELSE \E result \in DeleteResults :
              LET f == CalledOn(frame[c], "delete_agent", agent)
              IN  /\ remoteAgents' = RemoteAfterDelete(remoteAgents, agent, result)
                  /\ agent' = HandleAfterDelete(agent, result)
                  /\ frame' = [frame EXCEPT ![c] =
                        [f EXCEPT !.outcomes = Append(@, IF result = NoExc THEN "ok" ELSE result.kind),
                                  !.logged = Append(@, IF result = NoExc THEN "info" ELSE "warning")]]
                  /\ scope' = IF scope.state = "exiting"
                              THEN [scope EXCEPT !.state = "released",
                                                 !.deleted = IF result = NoExc THEN "ok" ELSE "failed"]
                              ELSE scope
    /\ pc' = [pc EXCEPT ![c] = "returned"]
    /\ UNCHANGED << sharepoint_tool, agentsCreated, threads, runs, ops, response >>
    /\ UNCHANGED << clock, env, boot, sinceCleanup, cli >>

\* with SharePointAgent(config) as agent: __enter__ returns the new object.
WithEnter(c) ==
    /\ pc[c] = "idle"
    /\ boot.pc = "agent_ready"
    /\ scope.state = "none"
    /\ ops = 0
    /\ agent = 0
    /\ scope' = [scope EXCEPT !.state = "inside"]
    /\ UNCHANGED << agent, sharepoint_tool, remoteAgents, agentsCreated, threads, runs,
                    ops, pc, frame, response >>
    /\ UNCHANGED << clock, env, boot, sinceCleanup, cli >>

\* How a with-block can end.
BlockEnds == { "normal", "exception" }

\* A faulty variant of WithExit: cleanup is called only when the block ends
\* normally.
WithExitNormalOnly(c) ==
    /\ pc[c] \in { "idle", "raised" }
    /\ scope.state = "inside"
    /\ \E how \in BlockEnds :
         /\ pc[c] = "raised" => how = "exception"
         /\ scope' = [scope EXCEPT !.state = IF how = "normal" THEN "exiting" ELSE "released",
                                   !.how = how, !.held = agent]
         /\ pc' = [pc EXCEPT ![c] = IF how = "normal" THEN "cl_delete" ELSE "returned"]
    /\ frame' = [frame EXCEPT ![c] = [IdleFrame EXCEPT !.op = "cleanup"]]
    /\ response' = [response EXCEPT ![c] = NoResponse]
    /\ sinceCleanup' = 0
    /\ UNCHANGED << agent, sharepoint_tool, remoteAgents, agentsCreated, threads, runs, ops >>
    /\ UNCHANGED << clock, env, boot, cli >>

\* __exit__, lines 327-329: the with-block ends, normally or because an
\* exception leaves it (one a call of c raised, or one of the block's own
\* code), and cleanup is called.
WithExit(c) ==
    /\ pc[c] \in { "idle", "raised" }
    /\ scope.state = "inside"
    /\ \E how \in BlockEnds :
         /\ pc[c] = "raised" => how = "exception"
         /\ scope' = [scope EXCEPT !.state = "exiting", !.how = how, !.held = agent]
    /\ frame' = [frame EXCEPT ![c] = [IdleFrame EXCEPT !.op = "cleanup"]]
    /\ pc' = [pc EXCEPT ![c] = "cl_delete"]
    /\ response' = [response EXCEPT ![c] = NoResponse]
    /\ sinceCleanup' = 0
    /\ UNCHANGED << agent, sharepoint_tool, remoteAgents, agentsCreated, threads, runs, ops >>
    /\ UNCHANGED << clock, env, boot, cli >>

\* ------------------------------------------------------------------ start-up
\* load_dotenv(): the variables of the .env file are set in os.environ
\* unless they are set there already.
LoadDotenv(e, file) == [v \in RequiredSet |-> IF e[v] = Unset THEN file[v] ELSE e[v]]

\* A faulty variant of MissingVars: the check stops at the first missing variable.
MissingVarsFirstOnly(e) ==
    LET Falsy(v) == e[v] \in { Unset, "" }
        all == SelectSeq(RequiredVars, Falsy)
    IN  IF all = << >> THEN << >> ELSE << Head(all) >>

\* _validate_required_vars, lines 61-64: the required variables, in order,
\* for which os.getenv gives None or "".
MissingVars(e) ==
    LET Falsy(v) == e[v] \in { Unset, "" }
    IN  SelectSeq(RequiredVars, Falsy)

\* ', '.join(names)
RECURSIVE JoinComma(_)
JoinComma(names) ==
    IF names = << >> THEN << >>
    ELSE IF Len(names) = 1 THEN names
    ELSE << Head(names), ", " >> \o JoinComma(Tail(names))

\* _validate_required_vars, lines 66-70
MissingError(missing) ==
    Exc("ValueError", << "Missing required environment variables: " >> \o JoinComma(missing)
                      \o << ". ", "Please set these variables or create a .env file based on .env.example" >>)

\* Config(): load the .env file, then validate (_setup_logging cannot fail).
ConfigInit ==
    /\ boot.pc = "start"
    /\ env' = LoadDotenv(env, boot.dotenv)
    /\ LET missing == MissingVars(env')
       IN  boot' = IF missing = << >>
                   THEN [boot EXCEPT !.pc = "config_ready", !.validated = env']
                   ELSE [boot EXCEPT !.pc = "config_failed", !.validated = env',
                                     !.error = MissingError(missing)]
    /\ UNCHANGED << agent, sharepoint_tool, remoteAgents, agentsCreated, threads, runs,
                    ops, pc, frame, response, clock, scope, sinceCleanup, cli >>

\* Something in the process sets or deletes a variable of os.environ after
\* the Config was constructed.
EnvChange ==
    /\ boot.pc \in { "config_ready", "agent_ready" }
    /\ \E v \in RequiredSet, x \in EnvValues :
         /\ env[v] # x
         /\ env' = [env EXCEPT ![v] = x]
    /\ UNCHANGED << agent, sharepoint_tool, remoteAgents, agentsCreated, threads, runs,
                    ops, pc, frame, response, clock, scope, boot, sinceCleanup, cli >>

\* os.environ[v]
Environ(e, v) ==
    IF e[v] = Unset THEN [value |-> Unset, exc |-> Exc("KeyError", << "'", v, "'" >>)]
    ELSE [value |-> e[v], exc |-> NoExc]

\* The properties project_endpoint, sharepoint_resource_name and
\* model_deployment_name, lines 33-46: each returns os.environ[...].
ConfigRead ==
    /\ boot.pc \in { "config_ready", "agent_ready" }
    /\ \E v \in RequiredSet :
         boot' = [boot EXCEPT !.read = [var |-> v, value |-> Environ(env, v).value,
                                        exc |-> Environ(env, v).exc]]
    /\ UNCHANGED << agent, sharepoint_tool, remoteAgents, agentsCreated, threads, runs,
                    ops, pc, frame, response, clock, scope, env, sinceCleanup, cli >>

\* What AIProjectClient(endpoint=..., credential=DefaultAzureCredential())
\* can do: return the client, or raise.
ClientResults ==
    { NoExc, Exc("ClientAuthenticationError", << "no credential could get a token" >>),
      Exc("ValueError", << "invalid endpoint" >>) } \cup RemoteErrors

\* A faulty variant of InitClientsError: every failure is reported alike.
InitClientsErrorGenericOnly(e) == Wrap("Client initialization failed: ", e)

\* _initialize_clients, lines 81-89: the two except clauses, in order.
InitClientsError(e) ==
    IF IsInstance(e.kind, "ClientAuthenticationError")
    THEN Exc("RuntimeError", << "Failed to authenticate", " with Azure. ",
                                "Ensure you have proper permissions and Azure credentials are configured." >>)
    ELSE Wrap("Client initialization failed: ", e)

\* SharePointAgent(config): __init__ with _initialize_clients, lines 58-89.
\* The endpoint is read from the Config inside the try block.
AgentConstruct ==
    /\ boot.pc = "config_ready"
    /\ \E r \in ClientResults :
         LET endpoint == Environ(env, "PROJECT_ENDPOINT")
             cause == IF endpoint.exc # NoExc THEN endpoint.exc ELSE r
         IN  boot' = IF cause = NoExc
                     THEN [boot EXCEPT !.pc = "agent_ready", !.object = TRUE]
                     ELSE [boot EXCEPT !.pc = "agent_failed", !.cause = cause,
                                       !.error = InitClientsError(cause)]
    /\ UNCHANGED << agent, sharepoint_tool, remoteAgents, agentsCreated, threads, runs,
                    ops, pc, frame, response, clock, scope, env, sinceCleanup, cli >>

\* ------------------------------------------------------------ InteractiveCLI
\* Text the user types is a sequence of characters.
\* str.lower() on one character (of those that occur).
LowerCharIdentity(ch) == ch

LowerChar(ch) ==
    CASE ch = "Q" -> "q" [] ch = "U" -> "u" [] ch = "I" -> "i" [] ch = "T" -> "t"
      [] ch = "H" -> "h" [] ch = "C" -> "c" [] OTHER -> ch

\* str.lower()
Lower(text) == [i \in 1..Len(text) |-> LowerChar(text[i])]

RECURSIVE StripLeft(_)
StripLeft(text) ==
    IF text = << >> THEN << >>
    ELSE IF Head(text) = " " THEN StripLeft(Tail(text))
    ELSE text

\* str.strip()
Strip(text) == Reverse(StripLeft(Reverse(StripLeft(text))))

QuitCommands == { << "/", "q", "u", "i", "t" >>, << "/", "q" >> }
HelpCommands == { << "/", "h", "e", "l", "p" >>, << "/", "h" >> }
HistoryCommands == { << "/", "h", "i", "s", "t", "o", "r", "y" >>, << "/", "h", "i" >> }
ClearCommands == { << "/", "c", "l", "e", "a", "r" >>, << "/", "c" >> }

\* run, lines 129-149: what the loop takes a line of input for.
Classify(text) ==
    LET user_input == Strip(text)
    IN  IF user_input = << >> THEN "empty"
        ELSE IF Lower(user_input) \in QuitCommands THEN "quit"
        ELSE IF Lower(user_input) \in HelpCommands THEN "help"
        ELSE IF Lower(user_input) \in HistoryCommands THEN "history"
        ELSE IF Lower(user_input) \in ClearCommands THEN "clear"
        ELSE "query"

\* Lines the user can type: commands in their long and short forms and in
\* several letter cases, nothing, blanks, and free text.
CommandLines ==
    { << >>,
      << " " >>,
      << "/", "q", "u", "i", "t" >>,
      << "/", "q" >>,
      << " ", "/", "Q", " " >>,
      << "/", "Q", "U", "I", "T" >>,
      << "/", "h", "e", "l", "p" >>,
      << "/", "H" >>,
      << "/", "h", "i", "s", "t", "o", "r", "y" >>,
      << "/", "h", "i" >>,
      << "/", "H", "i", " " >>,
      << "/", "c", "l", "e", "a", "r" >>,
      << "/", "c" >>,
      << " ", "/", "C" >> }

TextLines == { << " ", "H", "i" >>, << "H", "i", " " >> }

\* The sessions looked at hold no more queries than there are lines of
\* free text.
SessionQueries == Cardinality(TextLines)

\* What input() can do: return a line, raise EOFError, or raise
\* KeyboardInterrupt; "error" is any other exception raised inside the loop.
Events ==
    { [kind |-> "line", text |-> t] : t \in CommandLines \cup TextLines }
    \cup { [kind |-> k, text |-> << >>] : k \in { "eof", "interrupt", "error" } }

\* What an input event is taken for.
EventClass(ev) == IF ev.kind = "line" THEN Classify(ev.text) ELSE ev.kind

\* A faulty variant of LeavesLoop: an interrupt ends the loop too.
LeavesLoopOnInterrupt(ev) == EventClass(ev) \in { "quit", "eof", "error", "interrupt" }

\* run, lines 135-137 and 161-167: /quit and EOFError break out of the
\* loop, an exception not caught inside it leaves it, KeyboardInterrupt is
\* caught and the loop goes on.
LeavesLoop(ev) == EventClass(ev) \in { "quit", "eof", "error" }

\* A faulty variant of ClearHistory: the conversation is forgotten as well.
ClearHistoryAndThread(state) ==
    [state EXCEPT !.history = << >>, !.asked = << >>, !.thread_id = 0]

\* _clear_history, lines 109-112
ClearHistory(state) == [state EXCEPT !.history = << >>, !.asked = << >>]

\* The entry _print_response makes for a query and its response, lines 54-59.
Entry(query, r) ==
    [ query          |-> query,
      response       |-> IF r.success THEN r.content ELSE r.error_message,
      success        |-> r.success,
      execution_time |-> r.execution_time ]

\* A faulty variant of AppendHistory: failures are left out.
AppendHistoryOnSuccess(history, query, r) ==
    IF r.success THEN Append(history, Entry(query, r)) ELSE history

\* _print_response, line 54: self.conversation_history.append(...)
AppendHistory(history, query, r) == Append(history, Entry(query, r))

\* run, lines 156-157: if response.thread_id: self.thread_id = response.thread_id
StoredThread(current, r) == IF r.thread_id # 0 THEN r.thread_id ELSE current

\* A faulty variant of AfterQuery: a failed query ends the loop.
AfterQueryStopsOnFailure(r) == IF r.success THEN "prompt" ELSE "done"

\* run, lines 153-159 in "while True": whatever the response, the loop goes
\* on with the next input.
AfterQuery(r) == "prompt"

\* _setup_agent, line 36: self.agent.create_agent(...), once
\* SharePointAgent(config) has returned.
CliSetupCreate(c) ==
    /\ cli.pc = "setup"
    /\ boot.pc = "agent_ready"
    /\ pc[c] = "idle"
    /\ frame' = [frame EXCEPT ![c] = [IdleFrame EXCEPT !.op = "create"]]
    /\ pc' = [pc EXCEPT ![c] = "ca_tool"]
    /\ cli' = [cli EXCEPT !.pc = "creating"]
    /\ UNCHANGED << agent, sharepoint_tool, remoteAgents, agentsCreated, threads, runs,
                    ops, response, clock, scope, env, boot, sinceCleanup >>

\* _setup_agent, lines 47-49, and run, lines 122-123: SharePointAgent(config)
\* raised; run returns before its loop and without cleanup.
CliSetupFailed ==
    /\ cli.pc = "setup"
    /\ boot.pc = "agent_failed"
    /\ cli' = [cli EXCEPT !.pc = "done", !.how = "setup_failed"]
    /\ UNCHANGED << agent, sharepoint_tool, remoteAgents, agentsCreated, threads, runs,
                    ops, pc, frame, response, clock, scope, env, boot, sinceCleanup >>

\* _setup_agent, lines 44-49, and run, lines 122-125: create_agent has
\* returned and the loop begins, or it has raised and run returns.
CliSetupDone(c) ==
    /\ cli.pc = "creating"
    /\ pc[c] \in { "returned", "raised" }
    /\ cli' = IF pc[c] = "returned" THEN [cli EXCEPT !.pc = "prompt"]
                                    ELSE [cli EXCEPT !.pc = "done", !.how = "setup_failed"]
    /\ pc' = [pc EXCEPT ![c] = "idle"]
    /\ frame' = [frame EXCEPT ![c] = IdleFrame]
    /\ UNCHANGED << agent, sharepoint_tool, remoteAgents, agentsCreated, threads, runs,
                    ops, response, clock, scope, env, boot, sinceCleanup >>

\* run, lines 127-173: one pass of the loop from input() to the next
\* input(), to the call of query, or out of the loop into the finally
\* clause, which calls cleanup (self.agent is the SharePointAgent object).
CliInput(c) ==
    /\ cli.pc = "prompt"
    /\ pc[c] = "idle"
    /\ \E ev \in Events :
         IF LeavesLoop(ev)
         THEN /\ cli' = [cli EXCEPT !.pc = "finally", !.how = EventClass(ev),
                                    !.cleanups = @ + 1]
              /\ frame' = [frame EXCEPT ![c] = [IdleFrame EXCEPT !.op = "cleanup"]]
              /\ pc' = [pc EXCEPT ![c] = "cl_delete"]
              /\ sinceCleanup' = 0
              /\ UNCHANGED ops
         ELSE IF EventClass(ev) = "query"
         THEN /\ ops < MaxOps
              /\ cli.queries < SessionQueries
              /\ frame' = [frame EXCEPT ![c] =
                             [IdleFrame EXCEPT !.op = "query", !.question = Strip(ev.text),
                                               !.given = cli.thread_id,
                                               !.thread_id = cli.thread_id,
                                               !.start_time = clock,
                                               !.max_retries = DefaultMaxRetries]]
              /\ pc' = [pc EXCEPT ![c] = "q_agent"]
              /\ ops' = ops + 1
              /\ cli' = [cli EXCEPT !.pc = "query", !.queries = @ + 1]
              /\ UNCHANGED sinceCleanup
         ELSE /\ cli' = IF EventClass(ev) = "clear" THEN ClearHistory(cli) ELSE cli
              /\ UNCHANGED << pc, frame, ops, sinceCleanup >>
    /\ response' = [response EXCEPT ![c] = NoResponse]
    /\ UNCHANGED << agent, sharepoint_tool, remoteAgents, agentsCreated, threads, runs,
                    clock, scope, env, boot >>

\* run, lines 153-159: query has returned; the thread id is stored, the
\* response is printed and entered in the history.
CliAfterQuery(c) ==
    /\ cli.pc = "query"
    /\ pc[c] = "returned"
    /\ LET r == response[c][1]
       IN  cli' = [cli EXCEPT !.thread_id = StoredThread(@, r),
                              !.history = AppendHistory(@, frame[c].question, r),
                              !.asked = Append(@, [query |-> frame[c].question,
                                                   success |-> r.success]),
                              !.pc = AfterQuery(r)]
    /\ pc' = [pc EXCEPT ![c] = "idle"]
    /\ frame' = [frame EXCEPT ![c] = IdleFrame]
    /\ response' = [response EXCEPT ![c] = NoResponse]
    /\ clock' = Epoch
    /\ UNCHANGED << agent, sharepoint_tool, remoteAgents, agentsCreated, threads, runs,
                    ops, scope, env, boot, sinceCleanup >>

\* run, line 173: cleanup has returned and run ends.
CliDone(c) ==
    /\ cli.pc = "finally"
    /\ pc[c] = "returned"
    /\ cli' = [cli EXCEPT !.pc = "done"]
    /\ pc' = [pc EXCEPT ![c] = "idle"]
    /\ frame' = [frame EXCEPT ![c] = IdleFrame]
    /\ UNCHANGED << agent, sharepoint_tool, remoteAgents, agentsCreated, threads, runs,
                    ops, response, clock, scope, env, boot, sinceCleanup >>

\* ------------------------------------------------------- the specification
Step(c) ==
    \/ QueryBegin(c)
    \/ QueryEnsureAgent(c)
    \/ CreateAgentSetupTool(c)
    \/ CreateAgentRemote(c)
    \/ CreateAgentStore(c)
    \/ QueryThread(c)
    \/ QuerySend(c)
    \/ ExecBegin(c)
    \/ ExecuteRunAttempt(c)
    \/ QueryNormalize(c)
    \/ QueryExcept(c)
    \/ Finish(c)

\* One caller at a time uses the agent (the program is single-threaded).
Next == \E c \in MainCallers : Step(c)

Spec == Init /\ [][Next]_vars

\* A session: create_agent, query and cleanup calls on one SharePointAgent,
\* inside a with-block or not.
StepSession(c) ==
    \/ CreateAgentBegin(c)
    \/ QueryBegin(c)
    \/ QueryEnsureAgent(c)
    \/ CreateAgentSetupTool(c)
    \/ CreateAgentRemote(c)
    \/ CreateAgentStore(c)
    \/ QueryThread(c)
    \/ QuerySend(c)
    \/ ExecuteRunAttempt(c)
    \/ QueryNormalize(c)
    \/ QueryExcept(c)
    \/ CleanupBegin(c)
    \/ CleanupDelete(c)
    \/ WithEnter(c)
    \/ WithExit(c)
    \/ Finish(c)

NextSession == \E c \in MainCallers : StepSession(c)

SpecSession == Init /\ [][NextSession]_vars

\* Two callers (threads of the program) use one SharePointAgent inside a
\* with-block, with nothing to keep their calls apart.  Each calls query;
\* between them they issue as many queries as there are callers.
ConcurrentQueryBegin(c) ==
    /\ pc[c] = "idle"
    /\ boot.pc = "agent_ready"
    /\ scope.state = "inside"
    /\ ops < Cardinality(Callers)
    /\ \E q \in Questions, t \in 0..Len(threads) :
         frame' = [frame EXCEPT ![c] =
                     [IdleFrame EXCEPT !.op = "query", !.question = q,
                                       !.given = t, !.thread_id = t,
                                       !.start_time = clock,
                                       !.max_retries = DefaultMaxRetries]]
    /\ pc' = [pc EXCEPT ![c] = "q_agent"]
    /\ response' = [response EXCEPT ![c] = NoResponse]
    /\ ops' = ops + 1
    /\ UNCHANGED << agent, sharepoint_tool, remoteAgents, agentsCreated, threads, runs >>
    /\ UNCHANGED << clock, outerVars >>

\* The with-block is left once every caller is done (the threads are joined).
WithExitJoined(c) ==
    /\ \A d \in Callers : pc[d] = "idle"
    /\ WithExit(c)

\* Where a query is once the agent is there: from the thread creation to
\* the result.
QueryBody == { "q_thread", "q_send", "q_run", "q_status", "q_except" }

\* The calls overlap while they look for the agent and create it (lines
\* 243-244 with create_agent); from the thread creation on, a query is
\* followed to its result before another caller is looked at.
Turn(c) == \A d \in Callers \ { c } : pc[d] \notin QueryBody

StepConcurrent(c) ==
    \/ Turn(c) /\ WithEnter(c)
    \/ Turn(c) /\ ConcurrentQueryBegin(c)
    \/ Turn(c) /\ QueryEnsureAgent(c)
    \/ Turn(c) /\ CreateAgentSetupTool(c)
    \/ Turn(c) /\ CreateAgentRemote(c)
    \/ Turn(c) /\ CreateAgentStore(c)
    \/ Turn(c) /\ QueryThread(c)
    \/ Turn(c) /\ QuerySend(c)
    \/ Turn(c) /\ ExecuteRunAttempt(c)
    \/ Turn(c) /\ QueryNormalize(c)
    \/ Turn(c) /\ QueryExcept(c)
    \/ Turn(c) /\ Finish(c)
    \/ Turn(c) /\ WithExitJoined(c)
    \/ Turn(c) /\ CleanupDelete(c)

NextConcurrent == \E c \in Callers : StepConcurrent(c)

SpecConcurrent == Init /\ [][NextConcurrent]_vars

\* interactive_cli.main: Config() has returned and run() begins.
InitCLI ==
    /\ agent = 0
    /\ sharepoint_tool = FALSE
    /\ remoteAgents = {}
    /\ agentsCreated = 0
    /\ threads = << >>
    /\ runs = 0
    /\ ops = 0
    /\ pc = [c \in Callers |-> "idle"]
    /\ frame = [c \in Callers |-> IdleFrame]
    /\ response = [c \in Callers |-> NoResponse]
    /\ clock = Epoch
    /\ scope = NoScope
    /\ sinceCleanup = 0
    /\ env = ValidEnv
    /\ boot = [BootReady EXCEPT !.pc = "config_ready", !.object = FALSE]
    /\ cli = [NoCli EXCEPT !.pc = "setup"]

StepCLI(c) ==
    \/ CliSetupCreate(c)
    \/ CreateAgentSetupTool(c)
    \/ CreateAgentRemote(c)
    \/ CreateAgentStore(c)
    \/ CliSetupDone(c)
    \/ CliInput(c)
    \/ QueryEnsureAgent(c)
    \/ QueryThread(c)
    \/ QuerySend(c)
    \/ ExecuteRunAttempt(c)
    \/ QueryNormalize(c)
    \/ QueryExcept(c)
    \/ CliAfterQuery(c)
    \/ CleanupDelete(c)
    \/ CliDone(c)

\* The interactive session: set-up, the input loop, cleanup.
NextCLI ==
    \/ AgentConstruct
    \/ CliSetupFailed
    \/ \E c \in MainCallers : StepCLI(c)

SpecCLI == InitCLI /\ [][NextCLI]_vars

\* The process starts with any environment and any .env file.
InitStartup ==
    /\ agent = 0
    /\ sharepoint_tool = FALSE
    /\ remoteAgents = {}
    /\ agentsCreated = 0
    /\ threads = << >>
    /\ runs = 0
    /\ ops = 0
    /\ pc = [c \in Callers |-> "idle"]
    /\ frame = [c \in Callers |-> IdleFrame]
    /\ response = [c \in Callers |-> NoResponse]
    /\ clock = Epoch
    /\ scope = NoScope
    /\ sinceCleanup = 0
    /\ cli = NoCli
    /\ env \in [RequiredSet -> EnvValues]
    /\ \E file \in [RequiredSet -> { Unset, "a" }] :
         boot = [BootReady EXCEPT !.pc = "start", !.dotenv = file, !.object = FALSE,
                                  !.validated = [v \in RequiredSet |-> Unset]]

\* Start-up: Config(), then SharePointAgent(config), with the environment
\* changing and the Config being read in between.
NextStartup ==
    \/ ConfigInit
    \/ EnvChange
    \/ ConfigRead
    \/ AgentConstruct

SpecStartup == InitStartup /\ [][NextStartup]_vars

\* ------------------------------------------------------------- properties
InQuery(c) == frame[c].op = "query"
QueryReturned(c) == InQuery(c) /\ pc[c] = "returned"
Resp(c) == response[c][1]

\* s is p followed by something: the text s ends with the text p.
EndsWith(s, p) ==
    /\ Len(p) <= Len(s)
    /\ \A i \in 1..Len(p) : s[Len(s) - Len(p) + i] = p[i]

Contains(s, piece) == \E i \in 1..Len(s) : s[i] = piece

\* The attempts that ended in a transient error.
TransientOutcome(o) == IsInstance(o, "ServiceRequestError")
AllTransient(os) == \A i \in 1..Len(os) : TransientOutcome(os[i])

\* << 2^0, 2^1, ..., 2^(k-1) >>
Powers(k) == [i \in 1..k |-> 2 ^ (i - 1)]

\* C1: a call of query never ends with an exception reaching its caller;
\* whatever step failed, the call ends with an AgentResponse returned.
C1_QueryNeverRaises ==
    \A c \in Callers :
        InQuery(c) =>
            /\ pc[c] # "raised"
            /\ pc[c] = "returned" => response[c] # NoResponse

\* A query whose run execution failed with a transient error on all three
\* attempts has returned a response.
C1_Witness ==
    \E c \in Callers :
        /\ QueryReturned(c)
        /\ frame[c].exc.kind = "ServiceRequestError"
        /\ Len(frame[c].outcomes) = DefaultMaxRetries
        /\ response[c] # NoResponse

\* C2: if any step of query raised (agent creation, thread creation, message
\* send, run execution, listing the messages), the result returned is a
\* failure: success false, content empty, error_message carrying the
\* exception's description.
C2_AnyRaiseGivesFailure ==
    \A c \in Callers :
        QueryReturned(c) =>
            LET raisedExc == IF frame[c].exc # NoExc THEN frame[c].exc ELSE frame[c].list_exc
            IN  raisedExc # NoExc =>
                    /\ Resp(c).success = FALSE
                    /\ Resp(c).content = << >>
                    /\ Resp(c).error_message # None
                    /\ EndsWith(Resp(c).error_message[1], raisedExc.msg)

\* C3: when the first k attempts (k < max_retries) raise a transient error
\* and the next one succeeds, the executor returns that run after exactly
\* k+1 attempts and k sleeps of 2^0, ..., 2^(k-1), in that order.
C3_RetryThenSuccess ==
    \A c \in Callers :
        LET f == frame[c]
            k == Len(f.outcomes) - 1
        IN  /\ (f.outcomes # << >> /\ Last(f.outcomes) = "ok") =>
                  /\ AllTransient(SubSeq(f.outcomes, 1, k))
                  /\ k < f.max_retries
                  /\ f.run # NoRun
                  /\ pc[c] \in (IF InQuery(c) THEN { "q_status", "returned" }
                                             ELSE { "returned" })
                  /\ f.sleeps = Powers(k)
            \* and after k < max_retries transient errors the executor is
            \* about to make attempt k+1, having slept 2^0, ..., 2^(k-1)
            /\ (f.outcomes # << >> /\ AllTransient(f.outcomes)
                  /\ Len(f.outcomes) < f.max_retries) =>
                  /\ pc[c] = "q_run"
                  /\ f.attempt = Len(f.outcomes)
                  /\ f.sleeps = Powers(Len(f.outcomes))

\* With max_retries = 3 the executor has returned a run on its third
\* attempt, after sleeps of 1 and 2.
C3_Witness ==
    \E c \in Callers :
        /\ frame[c].max_retries = 3
        /\ frame[c].outcomes = <<"ServiceRequestError", "ServiceRequestError", "ok">>
        /\ frame[c].sleeps = <<1, 2>>
        /\ frame[c].run # NoRun

\* C4: a non-transient error of the remote run is propagated at once: it is
\* the last attempt, no sleep follows it, and it is the exception that
\* leaves the executor.
C4_NonTransientPropagates ==
    \A c \in Callers :
        LET f == frame[c]
            n == Len(f.outcomes)
        IN  \A i \in 1..n :
              (f.outcomes[i] # "ok" /\ ~TransientOutcome(f.outcomes[i])) =>
                  /\ i = n
                  /\ Len(f.sleeps) = n - 1
                  /\ pc[c] \in (IF InQuery(c) THEN { "q_except", "returned" }
                                             ELSE { "raised" })
                  /\ f.exc.kind = f.outcomes[i]
                  /\ f.exc \in RemoteErrors

\* A non-transient error on the second attempt, after one retry, has left
\* the executor.
C4_Witness ==
    \E c \in Callers :
        /\ frame[c].outcomes = <<"ServiceRequestError", "HttpResponseError">>
        /\ frame[c].sleeps = <<1>>
        /\ frame[c].exc.kind = "HttpResponseError"
        /\ pc[c] = "raised"

\* C5 (state part): the executor makes at most max_retries attempts and at
\* most max_retries - 1 sleeps; when all max_retries attempts raised a
\* transient error, the last of them has left the executor, after exactly
\* max_retries - 1 sleeps.
C5_Bound ==
    \A c \in Callers :
        LET f == frame[c]
            n == f.max_retries
        IN  /\ Len(f.outcomes) <= n
            /\ f.sleeps = << >> \/ Len(f.sleeps) <= n - 1
            /\ (n >= 1 /\ Len(f.outcomes) = n /\ AllTransient(f.outcomes)) =>
                  /\ pc[c] \in (IF InQuery(c) THEN { "q_except", "returned" }
                                             ELSE { "raised" })
                  /\ f.exc \in RemoteErrors
                  /\ IsTransient(f.exc)
                  /\ f.sleeps = Powers(n - 1)

\* C5 (step part): a step of the executor that does not leave the retry
\* loop has made one more attempt.
C5_Progress ==
    \A c \in Callers :
        (pc[c] = "q_run" /\ pc'[c] = "q_run" /\ frame'[c] # frame[c]) =>
            Len(frame'[c].outcomes) = Len(frame[c].outcomes) + 1

\* C5: the executor makes at most N = max_retries attempts; when every
\* attempt raises a transient error the N-th one is propagated after exactly
\* N attempts and N-1 sleeps, none after the last attempt; every pass of the
\* loop uses up one of the N attempts, so the executor terminates.
C5_AtMostMaxRetriesAttempts == [] C5_Bound /\ [][C5_Progress]_vars

\* With max_retries = 4 the fourth transient error has reached the caller
\* after sleeps of 1, 2 and 4.
C5_Witness ==
    \E c \in Callers :
        /\ frame[c].max_retries = 4
        /\ Len(frame[c].outcomes) = 4
        /\ AllTransient(frame[c].outcomes)
        /\ frame[c].sleeps = <<1, 2, 4>>
        /\ pc[c] = "raised"

\* The thread of caller c's call, oldest message first.
ThreadOf(c) == threads[frame[c].thread_id]

AssistantIdx(thread) == { i \in 1..Len(thread) : thread[i].role = "assistant" }
AssistantTextIdx(thread) == { i \in AssistantIdx(thread) : thread[i].text # << >> }
MostRecent(idx) == CHOOSE i \in idx : \A j \in idx : j <= i

\* query has returned on a run with this status.
ReturnedWithStatus(c, status) ==
    /\ QueryReturned(c)
    /\ frame[c].run # NoRun
    /\ frame[c].run[1].status = status

\* query has returned on a completed run whose message listing returned.
CompletedListed(c) ==
    /\ ReturnedWithStatus(c, "completed")
    /\ frame[c].list_exc = NoExc

C7_SentinelWithoutAssistantMessage ==
    \A c \in Callers :
        (CompletedListed(c) /\ AssistantIdx(ThreadOf(c)) = {}) =>
            /\ Resp(c).success
            /\ Resp(c).content = <<"No response received from agent">>

\* A completed run left no assistant message and query has returned.
C7_Witness ==
    \E c \in Callers :
        /\ CompletedListed(c)
        /\ Contains(frame[c].calls, "messages.list")
        /\ AssistantIdx(ThreadOf(c)) = {}
        /\ Resp(c).success

\* C8: on a failed run query returns success false, empty content and an
\* error_message built from the run's last error, or holding "Unknown error"
\* when the run has none; the thread's messages are not listed.
C8_FailedRun ==
    \A c \in Callers :
        ReturnedWithStatus(c, "failed") =>
            LET run == frame[c].run[1]
            IN  /\ Resp(c).success = FALSE
                /\ Resp(c).content = << >>
                /\ Resp(c).error_message # None
                /\ Head(Resp(c).error_message[1]) = "Agent run failed: "
                /\ run.last_error = None => Contains(Resp(c).error_message[1], "Unknown error")
                /\ run.last_error # None => Contains(Resp(c).error_message[1], run.last_error[1])
                /\ ~Contains(frame[c].calls, "messages.list")

\* A failed run without a last error has been reported.
C8_Witness ==
    \E c \in Callers :
        /\ ReturnedWithStatus(c, "failed")
        /\ frame[c].run[1].last_error = None
        /\ Resp(c).success = FALSE

\* C9: on a run whose status is neither completed nor failed query returns
\* success false, empty content and an error_message holding the status.
C9_UnexpectedStatus ==
    \A c \in Callers :
        (QueryReturned(c) /\ frame[c].run # NoRun
           /\ frame[c].run[1].status \notin { "completed", "failed" }) =>
            /\ Resp(c).success = FALSE
            /\ Resp(c).content = << >>
            /\ Resp(c).error_message # None
            /\ Contains(Resp(c).error_message[1], frame[c].run[1].status)

\* A run with status "weird_status" has been reported.
C9_Witness ==
    \E c \in Callers :
        /\ ReturnedWithStatus(c, "weird_status")
        /\ Resp(c).success = FALSE

\* The text describes an exception a remote call raised.
ErrorDescription(text) == \E e \in RemoteErrors : EndsWith(text, e.msg)

\* C10: every AgentResponse query returns has, with success true, no
\* error_message and a content that is not an error description; with
\* success false, an empty content and a non-empty error_message.
C10_ResponseShape ==
    \A c \in Callers :
        QueryReturned(c) =>
            IF Resp(c).success
            THEN /\ Resp(c).error_message = None
                 /\ ~ErrorDescription(Resp(c).content)
            ELSE /\ Resp(c).content = << >>
                 /\ Resp(c).error_message # None
                 /\ Resp(c).error_message[1] # << >>

RECURSIVE SumSeq(_)
SumSeq(q) == IF q = << >> THEN 0 ELSE Head(q) + SumSeq(Tail(q))

\* C11: every AgentResponse query returns, on the completed, failed,
\* unexpected-status and exception paths alike, has execution_time present
\* and not negative: it is the time that passed during the call (here the
\* time slept between the attempts).
C11_ExecutionTimePopulated ==
    \A c \in Callers :
        QueryReturned(c) =>
            /\ Resp(c).execution_time # None
            /\ Resp(c).execution_time[1] >= 0
            /\ Resp(c).execution_time[1] = SumSeq(frame[c].sleeps)

\* A query that failed with an exception after two backoff sleeps has
\* returned with an execution_time of 3.
C11_Witness ==
    \E c \in Callers :
        /\ QueryReturned(c)
        /\ frame[c].exc # NoExc
        /\ frame[c].start_time > 0
        /\ Resp(c).success = FALSE
        /\ Resp(c).execution_time = Some(3)

\* The remote calls of a query that take a thread id.
ThreadCalls == { "messages.create", "runs.create_and_process", "messages.list" }

\* The positions in caller c's call log of the calls named name.
CallIdx(c, name) == { i \in 1..Len(frame[c].calls) : frame[c].calls[i] = name }

\* C12: a query given the thread id an earlier query returned sends its
\* message, executes its run and lists the messages against that id, creates
\* no thread, and returns that id as thread_id; the query that created the
\* thread used the id it returned for its own calls too.
C12_ThreadReuse ==
    \A c \in Callers :
        InQuery(c) =>
            /\ \A n \in ThreadCalls : \A i \in CallIdx(c, n) :
                 /\ frame[c].targets[i] = frame[c].thread_id
                 /\ frame[c].targets[i] # 0
            /\ frame[c].given # 0 =>
                 /\ frame[c].thread_id = frame[c].given
                 /\ CallIdx(c, "threads.create") = {}
            /\ (QueryReturned(c) /\ frame[c].thread_id # 0) =>
                 Resp(c).thread_id = frame[c].thread_id

\* A second query was given the thread of the first and has returned that
\* id after sending, running and listing; the thread holds both questions.
C12_Witness ==
    \E c \in Callers :
        /\ QueryReturned(c)
        /\ frame[c].given # 0
        /\ Resp(c).success
        /\ Resp(c).thread_id = frame[c].given
        /\ \A n \in ThreadCalls : CallIdx(c, n) # {}
        /\ Cardinality({ i \in 1..Len(threads[frame[c].given]) :
                           threads[frame[c].given][i].role = "user" }) = 2

\* The call of caller c failed with an error whose message starts with prefix.
FailedWith(c, prefix) ==
    /\ frame[c].exc # NoExc
    /\ Head(frame[c].exc.msg) = prefix

\* The query of caller c failed because the agent could not be created.
AgentCreationFailed(c) == FailedWith(c, "Agent creation failed: ")

\* C13 as stated: a query given no thread id performs exactly one thread
\* creation and returns the new id; a query given one performs none.
C13_CreatesIffNoneSupplied ==
    \A c \in Callers :
        QueryReturned(c) =>
            IF frame[c].given = 0
            THEN /\ Cardinality(CallIdx(c, "threads.create")) = 1
                 /\ Resp(c).thread_id \in 1..Len(threads)
            ELSE CallIdx(c, "threads.create") = {}

C13_State ==
    \A c \in Callers :
        QueryReturned(c) =>
            IF frame[c].given = 0
            THEN /\ Cardinality(CallIdx(c, "threads.create")) =
                        IF AgentCreationFailed(c) THEN 0 ELSE 1
                 /\ Resp(c).thread_id = frame[c].thread_id
                 /\ frame[c].thread_id \in 0..Len(threads)
                 /\ (Resp(c).thread_id = 0) <=>
                        \/ AgentCreationFailed(c)
                        \/ FailedWith(c, "Thread creation failed: ")
            ELSE CallIdx(c, "threads.create") = {}

\* A thread creation that succeeds yields an id no thread had before.
C13_Fresh ==
    \A c \in Callers :
        (InQuery(c) /\ frame[c].thread_id = 0 /\ frame'[c].thread_id # 0) =>
            /\ frame'[c].thread_id \notin 1..Len(threads)
            /\ frame'[c].thread_id \in 1..Len(threads')

\* C13 amended: a query given no thread id performs exactly one thread
\* creation once the agent is available (none when the lazy agent creation
\* fails) and, when that creation succeeds, returns the new id in the
\* result; a query given a thread id performs no thread creation.
C13_CreatesIffNoneSuppliedAndAgentAvailable == [] C13_State /\ [][C13_Fresh]_vars

\* A query given no thread id has returned the id of the one thread it
\* created.
C13_Witness ==
    \E c \in Callers :
        /\ QueryReturned(c)
        /\ frame[c].given = 0
        /\ Cardinality(CallIdx(c, "threads.create")) = 1
        /\ Resp(c).thread_id = Len(threads)
        /\ Resp(c).thread_id # 0

\* The place of a remote call in a query's order (0: a call of create_agent).
Rank(name) ==
    IF name = "threads.create" THEN 1
    ELSE IF name = "messages.create" THEN 2
    ELSE IF name = "runs.create_and_process" THEN 3
    ELSE IF name = "messages.list" THEN 4
    ELSE 0

\* The calls of caller c come in the order thread create, message send, run
\* execution (at most max_retries attempts), message list; none is skipped
\* and none but the run is repeated.
C14_Order ==
    \A c \in Callers :
        InQuery(c) =>
            LET calls == frame[c].calls
            IN  /\ \A i, j \in 1..Len(calls) : i < j => Rank(calls[i]) <= Rank(calls[j])
                /\ Cardinality(CallIdx(c, "threads.create")) <= 1
                /\ Cardinality(CallIdx(c, "messages.create")) <= 1
                /\ Cardinality(CallIdx(c, "messages.list")) <= 1
                /\ Cardinality(CallIdx(c, "runs.create_and_process")) <= frame[c].max_retries
                /\ CallIdx(c, "messages.list") # {} => CallIdx(c, "runs.create_and_process") # {}
                /\ CallIdx(c, "runs.create_and_process") # {} => CallIdx(c, "messages.create") # {}
                /\ CallIdx(c, "messages.create") # {} =>
                     (frame[c].given = 0 <=> CallIdx(c, "threads.create") # {})

\* A call is issued only after the one before it has returned successfully,
\* and no call is issued once one has failed for good.
C14_AfterSuccess ==
    \A c \in Callers :
        (InQuery(c) /\ pc'[c] # "idle" /\ frame'[c].calls # frame[c].calls) =>
            LET name == Last(frame'[c].calls)
                t == frame[c].thread_id
            IN  /\ frame[c].exc = NoExc
                /\ Len(frame'[c].calls) = Len(frame[c].calls) + 1
                /\ name = "messages.create" => t \in 1..Len(threads)
                /\ name = "runs.create_and_process" =>
                     /\ t \in 1..Len(threads)
                     /\ threads[t] # << >>
                     /\ Last(threads[t]) = Message("user", << frame[c].question >>)
                     /\ \A i \in 1..Len(frame[c].outcomes) :
                          TransientOutcome(frame[c].outcomes[i])
                /\ name = "messages.list" =>
                     /\ frame[c].outcomes # << >>
                     /\ Last(frame[c].outcomes) = "ok"
                     /\ frame[c].run # NoRun
                     /\ frame[c].run[1].status = "completed"

\* C14: within one query the remote operations occur in the order thread
\* create, message send, run execution, message list; each starts only
\* after the previous one returned successfully, and after a failure none of
\* the later ones is issued.
C14_StrictOrder == [] C14_Order /\ [][C14_AfterSuccess]_vars

\* The remote calls of caller c that belong to query itself.
IsQueryCall(name) == Rank(name) > 0
QueryCalls(c) == SelectSeq(frame[c].calls, IsQueryCall)

\* A query has gone through all four operations, the run being issued twice.
C14_Witness ==
    \E c \in Callers :
        /\ QueryReturned(c)
        /\ Resp(c).success
        /\ QueryCalls(c) = << "threads.create", "messages.create",
                              "runs.create_and_process", "runs.create_and_process",
                              "messages.list" >>

\* C15 as stated: over any sequence of create_agent and query calls before
\* cleanup at most one remote agent is created, and a remote agent is
\* created only when the object holds none.
C15_CreatedOncePerSession ==
    /\ sinceCleanup <= 1
    /\ \A c \in Callers : (pc[c] = "ca_create" /\ InQuery(c)) => agent = 0

\* The calls of cleanup so far: caller c runs cleanup, by itself or from __exit__.
InCleanup(c) == frame[c].op = "cleanup"

\* cleanup has returned: with no agent it did nothing; otherwise it issued
\* one delete for the agent, and then either the agent is gone and the
\* handle cleared, or a warning is logged and the handle still set.
C16_Returned ==
    \A c \in Callers :
        InCleanup(c) =>
            /\ pc[c] \in { "cl_delete", "returned" }
            /\ frame[c].exc = NoExc
            /\ pc[c] = "returned" =>
                 IF frame[c].calls = << >>
                 THEN agent = 0 /\ frame[c].logged = << >>
                 ELSE /\ frame[c].calls = << "delete_agent" >>
                      /\ IF frame[c].outcomes = << "ok" >>
                         THEN /\ agent = 0
                              /\ frame[c].targets[1] \notin remoteAgents
                              /\ frame[c].logged = << "info" >>
                         ELSE /\ agent = frame[c].targets[1]
                              /\ agent # 0
                              /\ agent \in remoteAgents
                              /\ frame[c].logged = << "warning" >>

\* cleanup issues the delete for the agent the object holds, when it holds one.
C16_DeleteIssued ==
    \A c \in Callers :
        (pc[c] = "cl_delete" /\ agent # 0) =>
            /\ frame'[c].calls = << "delete_agent" >>
            /\ frame'[c].targets = << agent >>
            /\ pc'[c] = "returned"

\* C16: cleanup is best-effort: when an agent exists it issues one remote
\* delete for it and clears the handle on success; when the delete fails the
\* failure is logged, no exception reaches the caller, and the handle is
\* left set.
C16_CleanupBestEffort == [] C16_Returned /\ [][C16_DeleteIssued]_vars

\* cleanup has returned after a delete that failed: the handle is still set.
C16_Witness ==
    \E c \in Callers :
        /\ InCleanup(c)
        /\ pc[c] = "returned"
        /\ scope.state = "none"
        /\ frame[c].calls = << "delete_agent" >>
        /\ frame[c].logged = << "warning" >>
        /\ agent # 0

\* C17 as stated: once the with-block is released, no agent created inside
\* it exists any more.
C17_ReleasedMeansDeleted ==
    scope.state = "released" => remoteAgents = {}

\* The with-block is released only through cleanup, which issued a delete
\* for the agent the object held, if any; that agent is gone unless the
\* delete failed.
C17_Released ==
    scope.state = "released" =>
        /\ scope.how \in BlockEnds
        /\ IF scope.held = 0
           THEN scope.deleted = "none" /\ agent = 0
           ELSE /\ scope.deleted \in { "ok", "failed" }
                /\ scope.deleted = "ok" <=> scope.held \notin remoteAgents
                /\ scope.deleted = "ok" <=> agent = 0
                /\ scope.deleted = "failed" <=> agent = scope.held

\* Leaving the with-block calls cleanup, however the block ends, and the
\* block is released when that cleanup returns, having issued a delete for
\* the agent the object held.
C17_ExitCleans ==
    /\ (scope.state = "inside" /\ scope'.state # "inside") =>
          /\ scope'.state = "exiting"
          /\ scope'.held = agent
          /\ \E c \in Callers : pc'[c] = "cl_delete" /\ frame'[c].op = "cleanup"
    /\ (scope.state # "released" /\ scope'.state = "released") =>
          /\ scope.state = "exiting"
          /\ \E c \in Callers :
               /\ pc[c] = "cl_delete" /\ pc'[c] = "returned"
               /\ frame'[c].exc = NoExc
               /\ frame'[c].calls = IF scope.held = 0 THEN << >> ELSE << "delete_agent" >>
               /\ frame'[c].targets = IF scope.held = 0 THEN << >> ELSE << scope.held >>

\* C17 amended: when the with-block is released, normally or by an
\* exception, cleanup is called; it issues a delete for the agent the object
\* holds, and that agent is deleted unless the delete fails.
C17_ScopeReleaseCleans == [] C17_Released /\ [][C17_ExitCleans]_vars

\* A with-block left by an exception has been released and the agent
\* created inside it is deleted.
C17_Witness ==
    /\ scope.state = "released"
    /\ scope.how = "exception"
    /\ scope.held # 0
    /\ scope.deleted = "ok"
    /\ remoteAgents = {}

\* The required variables that are missing or empty in environment e.
MissingSet(e) == { v \in RequiredSet : e[v] \in { Unset, "" } }

\* The required variables that message msg names.
NamedIn(msg) == { v \in RequiredSet : Contains(msg, v) }

\* C18: Config() fails exactly when a required variable is missing or
\* empty, whichever they are, and the error message then names every
\* missing variable and none that is present.
C18_MissingSettingsNamed ==
    boot.pc # "start" =>
        /\ boot.pc = "config_failed" <=> MissingSet(boot.validated) # {}
        /\ boot.pc = "config_failed" =>
             /\ MissingSet(env) # {}
             /\ boot.error.kind = "ValueError"
             /\ Head(boot.error.msg) = "Missing required environment variables: "
             /\ NamedIn(boot.error.msg) = MissingSet(env)
        /\ boot.pc # "config_failed" =>
             /\ boot.error.kind # "ValueError"
             /\ \A v \in RequiredSet : boot.validated[v] \notin { Unset, "" }

\* Config() has failed with the first variable unset and the last one
\* empty, and the message names these two and not the second.
C18_Witness ==
    /\ boot.pc = "config_failed"
    /\ env["PROJECT_ENDPOINT"] = Unset
    /\ env["SHAREPOINT_RESOURCE_NAME"] = "a"
    /\ env["MODEL_DEPLOYMENT_NAME"] = ""
    /\ NamedIn(boot.error.msg) = { "PROJECT_ENDPOINT", "MODEL_DEPLOYMENT_NAME" }

\* C19 as stated: whatever a constructed Config returns for a required
\* setting is the non-empty value validated at construction, whatever
\* happened to the environment since.
C19_ConfigReadOnly ==
    boot.read.var # "none" =>
        /\ boot.read.exc = NoExc
        /\ boot.read.value = boot.validated[boot.read.var]
        /\ boot.read.value \notin { Unset, "" }

\* C20: when the client construction raises a credential error,
\* SharePointAgent(config) raises a RuntimeError whose message contains
\* "Failed to authenticate" and the guidance, and gives no object.
C20_AuthenticationFailure ==
    /\ boot.object <=> boot.pc = "agent_ready"
    /\ boot.pc = "agent_failed" <=> boot.cause # NoExc
    /\ (boot.pc = "agent_failed" /\ IsInstance(boot.cause.kind, "ClientAuthenticationError")) =>
          /\ boot.error.kind = "RuntimeError"
          /\ Contains(boot.error.msg, "Failed to authenticate")
          /\ Contains(boot.error.msg,
                      "Ensure you have proper permissions and Azure credentials are configured.")
          /\ ~ boot.object
    /\ (boot.pc = "agent_failed" /\ ~ IsInstance(boot.cause.kind, "ClientAuthenticationError")) =>
          ~ Contains(boot.error.msg, "Failed to authenticate")

\* SharePointAgent(config) has failed on a credential error.
C20_Witness ==
    /\ boot.pc = "agent_failed"
    /\ boot.cause.kind = "ClientAuthenticationError"
    /\ Contains(boot.error.msg, "Failed to authenticate")
    /\ ~ boot.object

\* The connection lookup of caller c found no connection: it returned
\* nothing, or raised ResourceNotFoundError.
ConnectionAbsent(c) == frame[c].lookup \in { "nothing", "ResourceNotFoundError" }

\* C21: when the named SharePoint connection is absent, create_agent fails
\* with an error that reports the connection as not found, no remote
\* create_agent call is issued, and the agent handle and the tool stay unset.
C21_ConnectionAbsent ==
    \A c \in Callers :
        ConnectionAbsent(c) =>
            /\ frame[c].exc.kind = "RuntimeError"
            /\ Head(frame[c].exc.msg) = "Agent creation failed: "
            /\ Contains(frame[c].exc.msg, "SharePoint connection '")
            /\ Contains(frame[c].exc.msg, "' not found. ")
            /\ CallIdx(c, "create_agent") = {}
            /\ Last(frame[c].calls) = "connections.get"
            /\ agent = 0
            /\ sharepoint_tool = FALSE
            /\ remoteAgents = {}
            /\ frame[c].op = "create" => pc[c] = "raised"

\* create_agent, called by itself, has raised because the lookup returned
\* nothing.
C21_Witness ==
    \E c \in Callers :
        /\ frame[c].op = "create"
        /\ pc[c] = "raised"
        /\ frame[c].lookup = "nothing"
        /\ agent = 0
        /\ ~ sharepoint_tool

\* The number of user messages in a thread.
UserCount(thread) == Cardinality({ i \in 1..Len(thread) : thread[i].role = "user" })

\* A query issues at most one message send, and exactly one before any run.
C24_OneSend ==
    \A c \in Callers :
        InQuery(c) =>
            /\ Cardinality(CallIdx(c, "messages.create")) <= 1
            /\ CallIdx(c, "runs.create_and_process") # {} =>
                 Cardinality(CallIdx(c, "messages.create")) = 1

\* Only a message send that succeeds adds a user message to a thread, and
\* it adds one; an attempt of the run, failed or not, adds none.
C24_OnlySendAdds ==
    /\ Len(threads') >= Len(threads)
    /\ \A t \in 1..Len(threads) :
         LET sent == \E c \in Callers :
                        /\ InQuery(c) /\ pc[c] = "q_send" /\ pc'[c] = "q_run"
                        /\ frame[c].thread_id = t
         IN  UserCount(threads'[t]) = UserCount(threads[t]) + (IF sent THEN 1 ELSE 0)
    /\ \A t \in (Len(threads) + 1)..Len(threads') : UserCount(threads'[t]) = 0

\* C24: within one query the user message is sent exactly once, however
\* many transient failures and retries the run goes through.
C24_MessageSentOnce == [] C24_OneSend /\ [][C24_OnlySendAdds]_vars

\* A query on a new thread has returned after two transient failures and a
\* third attempt, and the thread holds one user message.
C24_Witness ==
    \E c \in Callers :
        /\ QueryReturned(c)
        /\ frame[c].given = 0
        /\ Len(frame[c].outcomes) = 3
        /\ frame[c].outcomes[3] = "ok"
        /\ UserCount(threads[frame[c].thread_id]) = 1

\* A remote delete is issued only for the agent the handle refers to; a
\* delete that succeeds clears the handle; cleanup with no handle set issues
\* nothing and changes nothing.
C27_DeleteNeedsHandle ==
    \A c \in Callers :
        /\ (pc'[c] # "idle" /\ CallIdx(c, "delete_agent")' # CallIdx(c, "delete_agent")) =>
              /\ agent # 0
              /\ Last(frame'[c].targets) = agent
              /\ Last(frame'[c].outcomes) = "ok" => agent' = 0 /\ agent \notin remoteAgents'
        /\ (InCleanup(c) /\ pc[c] = "cl_delete" /\ agent = 0) =>
              /\ frame'[c].calls = << >>
              /\ agent' = 0
              /\ remoteAgents' = remoteAgents
              /\ pc'[c] = "returned"

\* C27: once a cleanup has deleted the agent the handle is unset, and a
\* further cleanup issues no remote delete; no delete is ever issued while
\* no handle is set.
C27_CleanupIdempotent == [][C27_DeleteNeedsHandle]_vars

\* Inside a with-block an agent was created and deleted by a cleanup call;
\* the cleanup at the end of the block found no handle and issued nothing.
C27_Witness ==
    /\ scope.state = "released"
    /\ scope.held = 0
    /\ scope.deleted = "none"
    /\ agentsCreated = 1
    /\ remoteAgents = {}
    /\ \E c \in Callers : InCleanup(c) /\ pc[c] = "returned" /\ frame[c].calls = << >>

\* Every create_agent call that returned made one more remote agent, and
\* until cleanup none is deleted; cleanup deletes the agent the handle
\* referred to and no other.
C23_RemoteAgents ==
    /\ agent \in 0..agentsCreated
    /\ scope.state \in { "none", "inside" } => remoteAgents = 1..agentsCreated
    /\ scope.state = "released" =>
         remoteAgents = IF scope.deleted = "ok" THEN (1..agentsCreated) \ { scope.held }
                                                ELSE 1..agentsCreated

\* A query that finds no agent goes on to create one, whatever the other
\* callers are doing, and the agent it created replaces the handle,
\* whatever the handle was.
C23_LazyCreation ==
    \A c \in Callers :
        /\ (InQuery(c) /\ pc[c] = "q_agent" /\ pc'[c] # "q_agent") =>
              pc'[c] = IF agent = 0 THEN "ca_tool" ELSE "q_thread"
        /\ (pc[c] = "ca_store" /\ pc'[c] # "ca_store") => agent' = frame[c].created

\* C23: two queries interleaved on one SharePointAgent can both find no
\* agent and both create one: two remote agents then exist, the handle
\* refers to the one stored last, and cleanup deletes that one only.
C23_InterleavedQueriesUnsafe == [] C23_RemoteAgents /\ [][C23_LazyCreation]_vars

\* Two interleaved queries have created two agents, the first created was
\* stored last, and after cleanup the second still exists remotely.
C23_Witness ==
    /\ scope.state = "released"
    /\ scope.deleted = "ok"
    /\ ops = 2
    /\ agentsCreated = 2
    /\ scope.held = 1
    /\ remoteAgents = { 2 }
    /\ agent = 0

\* The ways run() leaves its input loop.
LoopEnds == { "quit", "eof", "error" }

\* The session ends only on /quit, on end-of-input or on an exception that
\* is not a query's failure.
C22_EndsByUser ==
    cli.pc \in { "finally", "done" } => cli.how \in LoopEnds \cup { "setup_failed" }

\* When query has returned, with a success or with a failure, the loop
\* goes back to its prompt.
C22_LoopGoesOn ==
    (cli.pc = "query" /\ cli'.pc # "query") =>
        /\ cli'.pc = "prompt"
        /\ cli'.how = "none"
        /\ \E c \in Callers : QueryReturned(c) /\ pc'[c] = "idle"

\* C22: in the interactive session a query that ends in a failure result
\* does not end the session: the loop goes back to accepting input, and the
\* session ends only on /quit or end-of-input (or an unexpected exception).
C22_SessionSurvivesFailure == [] C22_EndsByUser /\ [][C22_LoopGoesOn]_vars

\* After a query that failed, a second query was processed and succeeded,
\* and the loop is at its prompt again.
C22_Witness ==
    /\ cli.pc = "prompt"
    /\ Len(cli.history) = 2
    /\ ~ cli.history[1].success
    /\ cli.history[2].success

\* While the CLI waits for query, the call was given the stored thread id
\* and uses it.
C25_QueryOnStored ==
    cli.pc = "query" =>
        \E c \in Callers :
            /\ InQuery(c)
            /\ frame[c].given = cli.thread_id
            /\ cli.thread_id # 0 => frame[c].thread_id = cli.thread_id
            /\ cli.thread_id # 0 =>
                 \A n \in ThreadCalls : \A i \in CallIdx(c, n) :
                     frame[c].targets[i] = cli.thread_id

\* The stored thread id is set from the first result that has one and
\* never changes afterwards.
C25_ThreadKept ==
    /\ cli.thread_id # 0 => cli'.thread_id = cli.thread_id
    /\ cli'.thread_id # cli.thread_id =>
         /\ cli.pc = "query"
         /\ \E c \in Callers : QueryReturned(c) /\ cli'.thread_id = Resp(c).thread_id

\* C25: the thread id the CLI stores, once set from a query result, never
\* changes: every later query is issued against it, and /help, /history
\* and /clear leave it as it is.
C25_StoredThreadNeverChanges == [] C25_QueryOnStored /\ [][C25_ThreadKept]_vars

\* Two queries went to the stored thread and the history was cleared
\* afterwards: the thread id is still stored.
C25_Witness ==
    /\ cli.pc = "prompt"
    /\ cli.queries = 2
    /\ cli.history = << >>
    /\ cli.thread_id # 0
    /\ UserCount(threads[cli.thread_id]) = 2

\* cleanup is called once on the way out of the loop and at no other time.
C26_CleanupCount ==
    /\ cli.pc \in { "setup", "creating", "prompt", "query" } =>
         cli.cleanups = 0 /\ cli.how = "none"
    /\ cli.pc = "finally" =>
         /\ cli.cleanups = 1
         /\ cli.how \in LoopEnds
         /\ \E c \in Callers : InCleanup(c) /\ pc[c] \in { "cl_delete", "returned" }
    /\ cli.pc = "done" =>
         \/ cli.how = "setup_failed" /\ cli.cleanups = 0
         \/ cli.how \in LoopEnds /\ cli.cleanups = 1

\* Leaving the loop calls cleanup at once.
C26_LeavingCleans ==
    (cli.pc = "prompt" /\ cli'.pc \notin { "prompt", "query" }) =>
        /\ cli'.pc = "finally"
        /\ cli'.cleanups = cli.cleanups + 1
        /\ \E c \in Callers : pc'[c] = "cl_delete" /\ frame'[c].op = "cleanup"

\* C26: once the agent is set up, every way of leaving the input loop
\* (/quit, end-of-input, an unexpected exception) is followed by exactly one
\* call of cleanup; an interrupt during input does not leave the loop.
C26_CleanupOnLeaving == [] C26_CleanupCount /\ [][C26_LeavingCleans]_vars

\* The loop was left by an unexpected exception after a query, cleanup was
\* called once and has deleted the agent.
C26_Witness ==
    /\ cli.pc = "done"
    /\ cli.how = "error"
    /\ cli.queries = 1
    /\ cli.cleanups = 1
    /\ agent = 0
    /\ remoteAgents = {}

\* What the lines of free text are once stripped.
FreeTexts == { << "H", "i" >> }

\* No command line is taken for a query, and every line of free text is.
C28_Classes ==
    /\ \A t \in CommandLines : Classify(t) \in { "empty", "quit", "help", "history", "clear" }
    /\ \A t \in TextLines : Classify(t) = "query"

\* A pass of the loop either starts one query, for a line of free text, or
\* starts none and adds nothing to the history.
C28_OneQueryPerText ==
    /\ cli.pc = "prompt" =>
         IF cli'.pc = "query"
         THEN /\ cli'.queries = cli.queries + 1
              /\ ops' = ops + 1
              /\ cli'.history = cli.history
              /\ \E c \in Callers : /\ pc[c] = "idle" /\ pc'[c] = "q_agent"
                                    /\ frame'[c].question \in FreeTexts
         ELSE /\ cli'.queries = cli.queries
              /\ ops' = ops
              /\ cli'.history \in { cli.history, << >> }
              /\ \A c \in Callers : pc'[c] # "q_agent"
    /\ cli.pc # "prompt" => cli'.queries = cli.queries /\ ops' = ops

\* C28: /help, /history, /clear, /quit, their short forms, in any letter
\* case, and empty input never issue a query and never append to the
\* history; free text issues exactly one query.
C28_CommandsIssueNoQuery == [] C28_Classes /\ [][C28_OneQueryPerText]_vars

\* A line of free text has started the first query.
C28_Witness ==
    /\ cli.pc = "query"
    /\ cli.queries = 1
    /\ \E c \in Callers : pc[c] = "q_agent" /\ frame[c].question \in FreeTexts

\* C29: the history holds one entry for each query processed since it was
\* last cleared (or since the start), in the order of the queries, failed
\* ones included.
C29_HistoryMatchesQueries ==
    /\ Len(cli.history) = Len(cli.asked)
    /\ Len(cli.history) <= cli.queries
    /\ \A i \in 1..Len(cli.history) :
         /\ cli.history[i].query = cli.asked[i].query
         /\ cli.history[i].success = cli.asked[i].success

\* The history was cleared after the first query; the second query failed
\* and is the one entry.
C29_Witness ==
    /\ cli.pc = "prompt"
    /\ cli.queries = 2
    /\ Len(cli.history) = 1
    /\ ~ cli.history[1].success

====
